---- MODULE Spec2Model ----
(***************************************************************************)
(* Ticket lifecycle and access control of the help-desk backend.          *)
(*                                                                         *)
(* The store (Prisma over a relational database) is modelled by the       *)
(* tables the lifecycle reads and writes: usuarios, tickets,              *)
(* historial_estados, registros_trabajo, comentarios and                  *)
(* sesiones_activas.  The rows of notificaciones are kept with the        *)
(* request that created them, in the specification of the fan-out.        *)
(*                                                                         *)
(* A controller is an operator from the tables and the request to a       *)
(* Resultado: the tables as the controller leaves them and the status it  *)
(* answers.  A route (Ruta...) is the middleware chain of routes/tickets  *)
(* in front of its controller.  An action serves one request through its  *)
(* route.  A store call may reject; the parameter `falla` names the call  *)
(* that rejects, and the controller's catch block then answers 500 with   *)
(* whatever the earlier calls already wrote.                               *)
(***************************************************************************)
EXTENDS Integers, Sequences, FiniteSets, TLC

VARIABLES
  usuarios,    \* table usuarios: id -> [rol, departamentoId, estaActivo]
  tickets,     \* table tickets: id -> row, defined on the ids that exist
  historial,   \* table historial_estados, per ticket, in cambiadoEn order
  registros,   \* table registros_trabajo, per ticket, in creadoEn order
  entradas,    \* history variable: which of RESUELTO / CERRADO a ticket
               \* has entered since its last reabrirTicket
  pasos,       \* number of requests served so far
  enVuelo,     \* requests in flight, between their awaits
  emitidos,    \* history variable: the numeroTicket of every ticket row
               \* created so far, in order of creation
  comentarios, \* table comentarios, per ticket, in creadoEn order
  sesiones     \* table sesiones_activas: the rows' usuarioId and token

vars ==
  <<usuarios, tickets, historial, registros, entradas, pasos, enVuelo,
    emitidos, comentarios, sesiones>>

----------------------------------------------------------------------------
(* Bounds of the model *)

\* requests served in one behaviour
MaxPasos == 3
\* hours of one work-log entry a request asks for, in whole hours
MaxHoras == 2

----------------------------------------------------------------------------
(* Schema *)

NULL == "null"

RolUsuario == {"ADMIN", "JEFE_DEPARTAMENTO", "AGENTE", "CLIENTE"}

EstadoTicket ==
  {"ABIERTO", "EN_PROGRESO", "EN_ESPERA", "RESUELTO", "CERRADO", "CANCELADO"}

\* the list cambiarEstado checks the body against
estadosValidos ==
  {"ABIERTO", "EN_PROGRESO", "EN_ESPERA", "RESUELTO", "CERRADO", "CANCELADO"}

\* uuids of the rows of departamento
Departamentos == {"d1", "d2"}

\* uuids of the rows of categorias
Categorias == {"c1", "c2"}

\* table categorias: each category is of one department
categorias == [c1 |-> [departamentoId |-> "d1"], c2 |-> [departamentoId |-> "d2"]]

\* uuids of the rows of usuarios
UsuarioIds == {"admin", "jefe1", "agente1", "cliente1"}

\* uuids the store gives to the rows of tickets, in order of creation
TicketIds == {"t1"}

\* uuids a request may name as a ticket: those and a uuid of no row
IdsPedidos == TicketIds \cup {"t9"}

\* new Date(): the value of a DateTime column set now.  The clock is the
\* count of the requests served.
FECHA == "fecha" \o ToString(pasos)

\* ticketValidation.addWorkLog: horas isFloat({min: 0.1, max: 24})
HorasMaximas == 24

\* a nullable Float column: <<>> is SQL NULL, <<h>> the value h
SinValor == <<>>
Valor(h) == <<h>>

Usuario(rol, departamentoId) ==
  [rol |-> rol, departamentoId |-> departamentoId, estaActivo |-> TRUE]

\* a row of tickets as prisma.ticket.create leaves it
Ticket(numeroTicket, creadorId, departamentoId, categoriaId) ==
  [ numeroTicket    |-> numeroTicket,
    estado          |-> "ABIERTO",
    agenteId        |-> NULL,
    creadorId       |-> creadorId,
    departamentoId  |-> departamentoId,
    categoriaId     |-> categoriaId,
    horasReales     |-> SinValor,
    fechaResolucion |-> NULL,
    fechaCierre     |-> NULL ]

HistorialEstado(estadoAnterior, estadoNuevo, comentario) ==
  [ estadoAnterior |-> estadoAnterior,
    estadoNuevo    |-> estadoNuevo,
    comentario     |-> comentario ]

RegistroTrabajo(agenteId, horas) == [agenteId |-> agenteId, horas |-> horas]

------------------------------------------------------------\* A JWT: the payload's userId, its iat, what it was signed for (the two
\* expiresIn of login) and the secret that signed it.
Token(userId, iat, uso, firma) ==
  [ userId |-> userId, iat |-> iat, uso |-> uso, firma |-> firma ]

\* model SesionActiva: the columns authenticate looks a session up by
Sesion(usuarioId, token) == [ usuarioId |-> usuarioId, token |-> token ]

----------------
(* Middleware *)

\* verifyOwnership as the comment above its first branch reads ("Admins y
\* jefes de departamento pueden ver todos"): the head of a department
\* passes whatever the ticket's department
verifyOwnershipJefesTodos(u, id) ==
  LET existe == id \in DOMAIN tickets
      rol == usuarios[u].rol
  IN  IF rol = "ADMIN"
        THEN IF existe THEN "next" ELSE "404"
      ELSE IF ~existe
        THEN "500"
      ELSE IF rol = "JEFE_DEPARTAMENTO"
        THEN "next"
      ELSE IF rol = "AGENTE"
        THEN IF tickets[id].agenteId # u THEN "403" ELSE "next"
      ELSE IF rol = "CLIENTE"
        THEN IF tickets[id].creadorId # u THEN "403" ELSE "next"
      ELSE "next"

\* authenticate: "next", or the status it answers to a request carrying
\* `token`.  No time passes in the model, so no token or session has expired.
authenticate(token) ==
  IF token.firma # "JWT_SECRET" THEN "401"
  ELSE IF token.userId \notin DOMAIN usuarios THEN "401"
  ELSE IF ~usuarios[token.userId].estaActivo THEN "403"
  ELSE IF Sesion(token.userId, token) \notin sesiones THEN "401"
  ELSE "next"

\* the users whose requests authenticate lets through: each request carries
\* the token of a session of its user
Autenticados ==
  {u \in DOMAIN usuarios :
     \E s \in sesiones : s.usuarioId = u /\ authenticate(s.token) = "next"}

\* authorize that lets every role through
authorizeCualquiera(rolesPermitidos, u) == usuarios[u].rol \in RolUsuario

\* authorize(rolesPermitidos): next() or 403
authorize(rolesPermitidos, u) == usuarios[u].rol \in rolesPermitidos

\* verifyOwnership('ticket'): "next", or the status it answers.  The row is
\* fetched first; every branch but ADMIN's dereferences it, so a missing
\* row throws there and the catch block answers 500.
verifyOwnership(u, id) ==
  LET existe == id \in DOMAIN tickets
      rol == usuarios[u].rol
  IN  IF rol = "ADMIN"
        THEN IF existe THEN "next" ELSE "404"
      ELSE IF ~existe
        THEN "500"
      ELSE IF rol = "JEFE_DEPARTAMENTO"
        THEN IF tickets[id].departamentoId # usuarios[u].departamentoId
               THEN "403" ELSE "next"
      ELSE IF rol = "AGENTE"
        THEN IF tickets[id].agenteId # u THEN "403" ELSE "next"
      ELSE IF rol = "CLIENTE"
        THEN IF tickets[id].creadorId # u THEN "403" ELSE "next"
      ELSE "next"

----------------------------------------------------------------------------
(* The store and what a request comes to *)

\* prisma update({data}): the columns named in data, the others kept
Aplicar(fila, data) ==
  [c \in DOMAIN fila |-> IF c \in DOMAIN data THEN data[c] ELSE fila[c]]

\* prisma.ticket.update({where: {id}, data}) on the table
update(id, data) == [tickets EXCEPT ![id] = Aplicar(@, data)]

\* prisma.historialEstado.create({data}) on the table
crearHistorial(id, fila) == [historial EXCEPT ![id] = Append(@, fila)]

\* What a request comes to: the status answered, the tables as the request
\* leaves them, the tickets it reopened and the ticket ids in its answer.
Resultado(codigo, tk, hi, re, reabiertos, resultado) ==
  [ codigo |-> codigo, tickets |-> tk, historial |-> hi, registros |-> re,
    reabiertos |-> reabiertos, resultado |-> resultado ]

\* a request answered before it wrote anything
Rechazo(codigo) == Resultado(codigo, tickets, historial, registros, {}, {})

\* a request answered after writing the ticket and history tables
Escrito(codigo, tk, hi) == Resultado(codigo, tk, hi, registros, {}, {})

\* the entradas of the rows `nuevos`; the ids in `reabiertos` were reopened
Entradas(nuevos, reabiertos) ==
  [ id \in DOMAIN nuevos |->
      IF id \in reabiertos
        THEN [resuelto |-> FALSE, cerrado |-> FALSE]
      ELSE LET antes == IF id \in DOMAIN tickets
                          THEN tickets[id].estado ELSE NULL
               ya == IF id \in DOMAIN entradas
                       THEN entradas[id]
                       ELSE [resuelto |-> FALSE, cerrado |-> FALSE]
           IN  [ resuelto |-> ya.resuelto
                   \/ (nuevos[id].estado = "RESUELTO" /\ antes # "RESUELTO"),
                 cerrado |-> ya.cerrado
                   \/ (nuevos[id].estado = "CERRADO" /\ antes # "CERRADO") ] ]

\* emitidos after the rows `nuevos` replace the table: the numeroTicket of
\* each row that was not there is added
Emitidos(nuevos) ==
  LET RECURSIVE Agregar(_, _)
      Agregar(s, ids) ==
        IF ids = {} THEN s
        ELSE LET id == CHOOSE x \in ids : TRUE
             IN  Agregar(Append(s, nuevos[id].numeroTicket), ids \ {id})
  IN  Agregar(emitidos, DOMAIN nuevos \ DOMAIN tickets)

\* the model takes one more request from the network
Pendiente == pasos < MaxPasos

\* The request of an authenticated user is served to its end: r is what
\* its route comes to.
Servir(u, r) ==
  /\ u \in Autenticados
  /\ pasos' = pasos + 1
  /\ LET res == r
     IN  /\ tickets' = res.tickets
         /\ historial' = res.historial
         /\ registros' = res.registros
         /\ entradas' = Entradas(res.tickets, res.reabiertos)
         /\ emitidos' = Emitidos(res.tickets)
  /\ UNCHANGED <<usuarios, enVuelo, comentarios, sesiones>>

----------------------------------------------------------------------------
(* Initial state: the tables as the migration creates them, with one    *)
(* account of each role, as the seeder registers them, and no ticket yet. *)

\* the accounts: an admin, the head and an agent of d1, and a client

UsuariosSembrados ==
  [ admin    |-> Usuario("ADMIN", NULL),
    jefe1    |-> Usuario("JEFE_DEPARTAMENTO", "d1"),
    agente1  |-> Usuario("AGENTE", "d1"),
    cliente1 |-> Usuario("CLIENTE", NULL) ]

\* every account has logged in once
SesionesSembradas ==
  {Sesion(u, Token(u, 0, "access", "JWT_SECRET")) : u \in DOMAIN UsuariosSembrados}

Init ==
  /\ usuarios = UsuariosSembrados
  /\ tickets = [id \in {} |-> NULL]
  /\ historial = [id \in IdsPedidos |-> <<>>]
  /\ registros = [id \in IdsPedidos |-> <<>>]
  /\ entradas = [id \in {} |-> NULL]
  /\ pasos = 0
  /\ enVuelo = [p \in {} |-> NULL]
  /\ emitidos = <<>>
  /\ comentarios = [id \in IdsPedidos |-> <<>>]
  /\ sesiones = SesionesSembradas

----------------------------------------------------------------------------
(* POST /api/tickets *)

\* `${year}-${month}-` of the month the requests arrive in
PREFIJO == "2024-01-"

\* the last six digits of Date.now() at the time of a failed lookup
RELOJ == "123456"

\* String(n).padStart(6, '0'): the decimal digits of n, at least six
RECURSIVE Decimales(_)
Decimales(n) == IF n < 10 THEN <<n>> ELSE Append(Decimales(n \div 10), n % 10)

padStart(digitos) ==
  [i \in 1..(6 - Len(digitos)) |-> 0] \o digitos

\* parseInt of a string of digits
RECURSIVE parseInt(_)
parseInt(digitos) ==
  IF digitos = <<>> THEN 0
  ELSE 10 * parseInt(SubSeq(digitos, 1, Len(digitos) - 1))
         + digitos[Len(digitos)]

\* a < b as strings of digits, character by character
RECURSIVE MenorCadena(_, _)
MenorCadena(a, b) ==
  IF b = <<>> THEN FALSE
  ELSE IF a = <<>> THEN TRUE
  ELSE IF a[1] # b[1] THEN a[1] < b[1]
  ELSE MenorCadena(Tail(a), Tail(b))

\* generateTicketNumber: a numeroTicket is <<prefix, digits>>.  The last
\* ticket of the month is the one greatest in string order; a lookup that
\* rejects falls back to TEMP- and the clock.
generateTicketNumber(falla) ==
  IF falla = "ticket.findFirst"
    THEN <<"TEMP-", RELOJ>>
  ELSE
    LET delMes == {id \in DOMAIN tickets :
                     tickets[id].numeroTicket[1] = PREFIJO}
    IN  IF delMes = {}
          THEN <<PREFIJO, padStart(Decimales(1))>>
          ELSE LET ultimoTicket ==
                     CHOOSE id \in delMes :
                       \A o \in delMes :
                         ~MenorCadena(tickets[id].numeroTicket[2],
                                      tickets[o].numeroTicket[2])
               IN  <<PREFIJO,
                     padStart(Decimales(
                       parseInt(tickets[ultimoTicket].numeroTicket[2]) + 1))>>

\* the unique index on numeroTicket lets the insert through
numeroLibre(numeroTicket) ==
  \A id \in DOMAIN tickets : tickets[id].numeroTicket # numeroTicket

\* the uuid the store gives the next row
NuevoId == CHOOSE id \in TicketIds \ DOMAIN tickets : TRUE

crearTicket(u, departamentoId, categoriaId, falla) ==
  IF \/ falla = "ticket.create"
     \/ categoriaId \notin DOMAIN categorias
     \/ ~numeroLibre(generateTicketNumber(falla))
    THEN Rechazo("500")
  ELSE
    LET id == NuevoId
        creado == tickets @@
                    (id :> Ticket(generateTicketNumber(falla), u,
                                  departamentoId, categoriaId))
    IN  IF falla = "historialEstado.create"
          THEN Escrito("500", creado, historial)
          ELSE Escrito("201", creado,
                 crearHistorial(id, HistorialEstado(NULL, "ABIERTO",
                                                    <<"Ticket creado">>)))

\* ticketValidation.create checks the shape of the body; crearTicket
RutaCrear(u, departamentoId, categoriaId, falla) ==
  crearTicket(u, departamentoId, categoriaId, falla)

PostTickets(u, departamentoId, categoriaId, falla) ==
  /\ Pendiente
  /\ TicketIds \ DOMAIN tickets # {}
  /\ Servir(u, RutaCrear(u, departamentoId, categoriaId, falla))

----------------------------------------------------------------------------
(* PATCH /api/tickets/:id/estado *)

\* the body's estado with the timestamp cambiarEstado adds to it
updateDataEstado(estado) ==
  IF estado = "RESUELTO"
    THEN [estado |-> estado, fechaResolucion |-> FECHA]
  ELSE IF estado = "CERRADO"
    THEN [estado |-> estado, fechaCierre |-> FECHA]
  ELSE [estado |-> estado]

\* comentario || `Estado cambiado a ${estado}`
comentarioEstado(comentario, estado) ==
  IF comentario \in {NULL, ""}
    THEN <<"Estado cambiado a", estado>>
    ELSE <<comentario>>

cambiarEstado(u, id, estado, comentario, falla) ==
  IF estado \notin estadosValidos
    THEN Rechazo("400")
  ELSE IF falla = "ticket.findUnique"
    THEN Rechazo("500")
  ELSE IF id \notin DOMAIN tickets
    THEN Rechazo("404")
  ELSE IF falla = "ticket.update"
    THEN Rechazo("500")
  ELSE
    LET ticketActual == tickets[id]
        actualizados == update(id, updateDataEstado(estado))
    IN  IF falla = "historialEstado.create"
          THEN Escrito("500", actualizados, historial)
          ELSE Escrito("200", actualizados,
                 crearHistorial(id, HistorialEstado(
                   ticketActual.estado, estado,
                   comentarioEstado(comentario, estado))))

\* ticketValidation.updateStatus, verifyOwnership('ticket'), cambiarEstado
RutaEstado(u, id, estado, comentario, falla) ==
  IF estado \notin EstadoTicket THEN Rechazo("400")
  ELSE IF verifyOwnership(u, id) # "next" THEN Rechazo(verifyOwnership(u, id))
  ELSE cambiarEstado(u, id, estado, comentario, falla)

PatchEstado(u, id, estado, comentario, falla) ==
  /\ Pendiente
  /\ Servir(u, RutaEstado(u, id, estado, comentario, falla))

----------------------------------------------------------------------------
(* PATCH /api/tickets/:id/asignar *)

\* prisma.usuario.findFirst({id, rol in [AGENTE, JEFE_DEPARTAMENTO],
\* estaActivo: true}) finds a row
agenteValido(agenteId) ==
  /\ agenteId \in DOMAIN usuarios
  /\ usuarios[agenteId].rol \in {"AGENTE", "JEFE_DEPARTAMENTO"}
  /\ usuarios[agenteId].estaActivo

\* the estadoAnterior asignarTicket writes: computed from the row the
\* update RETURNED, whose estado is already EN_PROGRESO
estadoAnteriorAsignar(ticket) ==
  IF ticket.estado = "EN_PROGRESO" THEN "ABIERTO" ELSE ticket.estado

asignarTicket(u, id, agenteId, falla) ==
  IF falla = "usuario.findFirst"
    THEN Rechazo("500")
  ELSE IF ~agenteValido(agenteId)
    THEN Rechazo("400")
  ELSE IF id \notin DOMAIN tickets \/ falla = "ticket.update"
    THEN Rechazo("500")
  ELSE
    LET actualizados ==
          update(id, [agenteId |-> agenteId, estado |-> "EN_PROGRESO"])
    IN  IF falla = "historialEstado.create"
          THEN Escrito("500", actualizados, historial)
          ELSE Escrito("200", actualizados,
                 crearHistorial(id, HistorialEstado(
                   estadoAnteriorAsignar(actualizados[id]), "EN_PROGRESO",
                   <<"Ticket asignado a", agenteId>>)))

\* ticketValidation.assign, authorize([ADMIN, JEFE_DEPARTAMENTO]),
\* asignarTicket
RutaAsignar(u, id, agenteId, falla) ==
  IF ~authorize({"ADMIN", "JEFE_DEPARTAMENTO"}, u) THEN Rechazo("403")
  ELSE asignarTicket(u, id, agenteId, falla)

PatchAsignar(u, id, agenteId, falla) ==
  /\ Pendiente
  /\ Servir(u, RutaAsignar(u, id, agenteId, falla))

----------------------------------------------------------------------------
(* POST /api/tickets/:id/reabrir *)

reabrirTicket(u, id, falla) ==
  IF id \notin DOMAIN tickets \/ falla = "ticket.update"
    THEN Rechazo("500")
  ELSE
    LET actualizados ==
          update(id, [ estado |-> "ABIERTO",
                       fechaResolucion |-> NULL,
                       fechaCierre |-> NULL ])
    IN  IF falla = "historialEstado.create"
          THEN Resultado("500", actualizados, historial, registros, {id}, {})
          ELSE Resultado("200", actualizados,
                 crearHistorial(id, HistorialEstado("CERRADO", "ABIERTO",
                                  <<"Ticket reabierto por", u>>)),
                 registros, {id}, {})

\* validateUuidParam, authorize([ADMIN, JEFE_DEPARTAMENTO]),
\* verifyOwnership('ticket'), reabrirTicket
RutaReabrir(u, id, falla) ==
  IF ~authorize({"ADMIN", "JEFE_DEPARTAMENTO"}, u) THEN Rechazo("403")
  ELSE IF verifyOwnership(u, id) # "next" THEN Rechazo(verifyOwnership(u, id))
  ELSE reabrirTicket(u, id, falla)

PostReabrir(u, id, falla) ==
  /\ Pendiente
  /\ Servir(u, RutaReabrir(u, id, falla))

----------------------------------------------------------------------------
(* POST /api/tickets/:id/trabajo *)

\* horasReales: {increment: h}: the store computes horasReales + h, and
\* NULL + h is NULL
increment(columna, h) ==
  IF columna = SinValor THEN SinValor ELSE Valor(columna[1] + h)

agregarRegistroTrabajo(u, id, horas, falla) ==
  IF id \notin DOMAIN tickets \/ falla = "registroTrabajo.create"
    THEN Rechazo("500")
  ELSE
    LET creados == [registros EXCEPT
                      ![id] = Append(@, RegistroTrabajo(u, horas))]
    IN  IF falla = "ticket.update"
          THEN Resultado("500", tickets, historial, creados, {}, {})
          ELSE Resultado("201",
                 update(id, [horasReales |->
                               increment(tickets[id].horasReales, horas)]),
                 historial, creados, {}, {})

\* ticketValidation.addWorkLog, authorize([AGENTE, JEFE_DEPARTAMENTO]),
\* verifyOwnership('ticket'), agregarRegistroTrabajo.  Hours are whole
\* here, so isFloat({min: 0.1, max: 24}) is 1 <= horas <= 24.
RutaTrabajo(u, id, horas, falla) ==
  IF horas < 1 \/ horas > HorasMaximas THEN Rechazo("400")
  ELSE IF ~authorize({"AGENTE", "JEFE_DEPARTAMENTO"}, u) THEN Rechazo("403")
  ELSE IF verifyOwnership(u, id) # "next" THEN Rechazo(verifyOwnership(u, id))
  ELSE agregarRegistroTrabajo(u, id, horas, falla)

PostTrabajo(u, id, horas, falla) ==
  /\ Pendiente
  /\ Servir(u, RutaTrabajo(u, id, horas, falla))

----------------------------------------------------------------------------
(* PUT /api/tickets/:id *)

actualizarTicket(u, id, updateData, falla) ==
  IF id \notin DOMAIN tickets \/ falla = "ticket.update"
    THEN Rechazo("500")
    ELSE Escrito("200", update(id, updateData), historial)

\* ticketValidation.update, authorize([ADMIN, JEFE_DEPARTAMENTO]),
\* verifyOwnership('ticket'), actualizarTicket.  The validation checks the
\* id, asunto and descripcion and lets every other key of the body through.
RutaActualizar(u, id, updateData, falla) ==
  IF ~authorize({"ADMIN", "JEFE_DEPARTAMENTO"}, u) THEN Rechazo("403")
  ELSE IF verifyOwnership(u, id) # "next" THEN Rechazo(verifyOwnership(u, id))
  ELSE actualizarTicket(u, id, updateData, falla)

PutTicket(u, id, updateData, falla) ==
  /\ Pendiente
  /\ Servir(u, RutaActualizar(u, id, updateData, falla))

----------------------------------------------------------------------------
(* POST /api/tickets/bulk/assign and /bulk/status *)

\* prisma.ticket.updateMany({where: {id in ids, estado in estados}, data})
updateMany(ids, estados, data) ==
  [id \in DOMAIN tickets |->
     IF id \in ids /\ tickets[id].estado \in estados
       THEN Aplicar(tickets[id], data) ELSE tickets[id]]

asignacionMasiva(u, ticketIds, agenteId, falla) ==
  IF falla = "usuario.findFirst"
    THEN Rechazo("500")
  ELSE IF ~agenteValido(agenteId)
    THEN Rechazo("400")
  ELSE IF falla = "ticket.updateMany"
    THEN Rechazo("500")
  ELSE Escrito("200",
         updateMany(ticketIds, {"ABIERTO", "EN_PROGRESO"},
                    [agenteId |-> agenteId, estado |-> "EN_PROGRESO"]),
         historial)

\* body validation, authorize([ADMIN, JEFE_DEPARTAMENTO]), asignacionMasiva
RutaBulkAssign(u, ticketIds, agenteId, falla) ==
  IF ticketIds = {} THEN Rechazo("400")
  ELSE IF ~authorize({"ADMIN", "JEFE_DEPARTAMENTO"}, u) THEN Rechazo("403")
  ELSE asignacionMasiva(u, ticketIds, agenteId, falla)

PostBulkAssign(u, ticketIds, agenteId, falla) ==
  /\ Pendiente
  /\ Servir(u, RutaBulkAssign(u, ticketIds, agenteId, falla))

cambioEstadoMasivo(u, ticketIds, estado, falla) ==
  IF falla = "ticket.updateMany"
    THEN Rechazo("500")
    ELSE Escrito("200",
           updateMany(ticketIds, EstadoTicket, updateDataEstado(estado)),
           historial)

\* body validation, authorize([ADMIN, JEFE_DEPARTAMENTO]),
\* cambioEstadoMasivo
RutaBulkStatus(u, ticketIds, estado, falla) ==
  IF ticketIds = {} \/ estado \notin EstadoTicket THEN Rechazo("400")
  ELSE IF ~authorize({"ADMIN", "JEFE_DEPARTAMENTO"}, u) THEN Rechazo("403")
  ELSE cambioEstadoMasivo(u, ticketIds, estado, falla)

PostBulkStatus(u, ticketIds, estado, falla) ==
  /\ Pendiente
  /\ Servir(u, RutaBulkStatus(u, ticketIds, estado, falla))

----------------------------------------------------------------------------
(* GET /api/tickets, GET /api/tickets/export/csv, GET /api/tickets/:id *)

\* where[campo] = valor on a Prisma where object
Poner(where, campo, valor) ==
  [c \in DOMAIN where \cup {campo} |->
     IF c = campo THEN valor ELSE where[c]]

\* if (f) where[campo] = f
Filtrar(where, campo, f) == IF f # NULL THEN Poner(where, campo, f) ELSE where

\* const where = {}
WhereVacio == [c \in {} |-> NULL]

\* the row satisfies every equality of the where object
Coincide(fila, where) == \A c \in DOMAIN where : fila[c] = where[c]

\* prisma.ticket.findMany({where}): the ids of the rows returned
findMany(where) == {id \in DOMAIN tickets : Coincide(tickets[id], where)}

\* a request that read the tickets `ids` and answered them
Leido(ids) == Resultado("200", tickets, historial, registros, {}, ids)

\* the where object obtenerTickets builds from the caller and the query
whereObtenerTickets(u, query) ==
  LET rol == usuarios[u].rol
      porRol ==
        IF rol = "CLIENTE" THEN Poner(WhereVacio, "creadorId", u)
        ELSE IF rol = "AGENTE" THEN Poner(WhereVacio, "agenteId", u)
        ELSE IF rol = "JEFE_DEPARTAMENTO"
          THEN Poner(WhereVacio, "departamentoId", usuarios[u].departamentoId)
        ELSE WhereVacio
  IN  Filtrar(Filtrar(Filtrar(porRol, "estado", query.estado),
                      "departamentoId", query.departamentoId),
              "agenteId", query.agenteId)

obtenerTickets(u, query, falla) ==
  IF falla = "ticket.findMany"
    THEN Rechazo("500")
    ELSE Leido(findMany(whereObtenerTickets(u, query)))

RutaListar(u, query, falla) == obtenerTickets(u, query, falla)

GetTickets(u, query, falla) ==
  /\ Pendiente
  /\ Servir(u, RutaListar(u, query, falla))

\* the where object exportarCSV builds
whereExportarCSV(u, query) ==
  LET porRol ==
        IF usuarios[u].rol = "JEFE_DEPARTAMENTO"
          THEN Poner(WhereVacio, "departamentoId", usuarios[u].departamentoId)
          ELSE WhereVacio
  IN  Filtrar(Filtrar(porRol, "estado", query.estado),
              "departamentoId", query.departamentoId)

exportarCSV(u, query, falla) ==
  IF falla = "ticket.findMany"
    THEN Rechazo("500")
    ELSE Leido(findMany(whereExportarCSV(u, query)))

\* ticketFiltersValidation, authorize([ADMIN, JEFE_DEPARTAMENTO]),
\* exportarCSV
RutaExportar(u, query, falla) ==
  IF ~authorize({"ADMIN", "JEFE_DEPARTAMENTO"}, u) THEN Rechazo("403")
  ELSE exportarCSV(u, query, falla)

GetExportCsv(u, query, falla) ==
  /\ Pendiente
  /\ Servir(u, RutaExportar(u, query, falla))

obtenerTicketPorId(u, id, falla) ==
  IF falla = "ticket.findUnique" THEN Rechazo("500")
  ELSE IF id \notin DOMAIN tickets THEN Rechazo("404")
  ELSE Leido({id})

\* validateUuidParam, verifyOwnership('ticket'), obtenerTicketPorId
RutaObtener(u, id, falla) ==
  IF verifyOwnership(u, id) # "next" THEN Rechazo(verifyOwnership(u, id))
  ELSE obtenerTicketPorId(u, id, falla)

GetTicket(u, id, falla) ==
  /\ Pendiente
  /\ Servir(u, RutaObtener(u, id, falla))

\* the where object the dashboard builds for a role: the list scope
buildWhereClause(rol, departamentoId, usuarioId) ==
  IF rol = "ADMIN" THEN WhereVacio
  ELSE IF rol = "JEFE_DEPARTAMENTO"
    THEN Poner(WhereVacio, "departamentoId", departamentoId)
  ELSE IF rol = "AGENTE" THEN Poner(WhereVacio, "agenteId", usuarioId)
  ELSE IF rol = "CLIENTE" THEN Poner(WhereVacio, "creadorId", usuarioId)
  ELSE WhereVacio

----------------------------------------------------------------------------
(* PUT /api/usuarios/:id, DELETE /api/usuarios/:id and                     *)
(* POST /api/usuarios/:id/activar                                           *)

\* What a request on the usuarios table comes to: the status answered and
\* the table as the request leaves it.
ResultadoUsuarios(codigo, us) == [codigo |-> codigo, usuarios |-> us]

\* prisma.usuario.update({where: {id}, data}): rejects when no row has the
\* id or the store fails, and the catch block answers 500
updateUsuario(id, data, falla) ==
  IF id \notin DOMAIN usuarios \/ falla = "usuario.update"
    THEN ResultadoUsuarios("500", usuarios)
    ELSE ResultadoUsuarios("200",
           [usuarios EXCEPT ![id] = Aplicar(@, data)])

actualizarUsuario(id, updateData, falla) == updateUsuario(id, updateData, falla)

desactivarUsuario(id, falla) ==
  updateUsuario(id, [estaActivo |-> FALSE], falla)

activarUsuario(id, falla) == updateUsuario(id, [estaActivo |-> TRUE], falla)

\* userValidation.update, authorize([ADMIN]), actualizarUsuario.  The
\* validation checks the id, email, nombreCompleto and telefono and lets
\* every other key of the body through.
RutaActualizarUsuario(u, id, updateData, falla) ==
  IF ~authorize({"ADMIN"}, u) THEN ResultadoUsuarios("403", usuarios)
  ELSE actualizarUsuario(id, updateData, falla)

\* validateUuidParam, authorize([ADMIN]), desactivarUsuario
RutaDesactivar(u, id, falla) ==
  IF ~authorize({"ADMIN"}, u) THEN ResultadoUsuarios("403", usuarios)
  ELSE desactivarUsuario(id, falla)

\* validateUuidParam, authorize([ADMIN]), activarUsuario
RutaActivar(u, id, falla) ==
  IF ~authorize({"ADMIN"}, u) THEN ResultadoUsuarios("403", usuarios)
  ELSE activarUsuario(id, falla)

\* The request of an authenticated user on the usuarios table is served to
\* its end: r is what its route comes to.
ServirUsuarios(u, r) ==
  /\ u \in Autenticados
  /\ pasos' = pasos + 1
  /\ usuarios' = r.usuarios
  /\ UNCHANGED <<tickets, historial, registros, entradas, enVuelo,
                 emitidos,
                 comentarios, sesiones>>

PutUsuario(u, id, updateData, falla) ==
  /\ Pendiente
  /\ ServirUsuarios(u, RutaActualizarUsuario(u, id, updateData, falla))

DeleteUsuario(u, id, falla) ==
  /\ Pendiente
  /\ ServirUsuarios(u, RutaDesactivar(u, id, falla))

PostActivar(u, id, falla) ==
  /\ Pendiente
  /\ ServirUsuarios(u, RutaActivar(u, id, falla))

----------------------------------------------------------------------------
(* The requests the model sends *)

\* estado of a request body: the enum's values and one that is not
EstadosPedidos == EstadoTicket \cup {"OTRO"}

\* agenteId of a request body: the users and a uuid of no user
AgentesPedidos == UsuarioIds \cup {"nadie"}

\* comentario of a request body
ComentariosPedidos == {NULL, "nota"}

\* horas of a request body
HorasPedidas == 0..MaxHoras

\* ticketIds of a bulk request
ListasPedidas == {{"t1"}, {"t1", "t9"}, {}}

\* the users who open tickets: a client and a member of staff
Creadores == {"cliente1", "agente1"}

\* the filters a query string may carry; NULL is a filter not given
Consultas ==
  [ agenteId       : {NULL, "jefe1"},
    departamentoId : {NULL, "d2"},
    estado         : {NULL, "ABIERTO"} ]

\* Bodies of PUT /api/tickets/:id: one column each, a value or two for it.
\* asunto is a column the model does not keep.
CuerposActualizar ==
  {[asunto |-> "otro asunto"]}
    \cup {[estado |-> e] : e \in {"RESUELTO", "CERRADO"}}
    \cup {[agenteId |-> a] : a \in {"cliente1", NULL}}
    \cup {[creadorId |-> c] : c \in {"admin"}}
    \cup {[departamentoId |-> d] : d \in {"d2"}}
    \cup {[horasReales |-> h] : h \in {Valor(0)}}
    \cup {[fechaResolucion |-> f] : f \in {FECHA}}

\* the accounts the admin's requests on /api/usuarios name, and a uuid of
\* no account
UsuariosGestionados == {"agente1", "nadie"}

\* Bodies of PUT /api/usuarios/:id.  nombreCompleto is a column the model
\* does not keep.
CuerposUsuario == {[nombreCompleto |-> "otro nombre"], [rol |-> "CLIENTE"]}

\* A store call that rejects before the request has written anything leaves
\* the tables as a request refused by its middleware does, so of the calls
\* that may reject Next takes those that reject after a write.
Next ==
  \/ \E u \in Creadores, d \in Departamentos, c \in Categorias,
        f \in {"ninguna", "ticket.create", "historialEstado.create"} :
       PostTickets(u, d, c, f)
  \/ \E u \in UsuarioIds, id \in IdsPedidos, e \in EstadosPedidos,
        c \in ComentariosPedidos,
        f \in {"ninguna", "historialEstado.create"} :
       PatchEstado(u, id, e, c, f)
  \/ \E u \in UsuarioIds, id \in IdsPedidos, a \in AgentesPedidos,
        f \in {"ninguna", "historialEstado.create"} :
       PatchAsignar(u, id, a, f)
  \/ \E u \in UsuarioIds, id \in IdsPedidos,
        f \in {"ninguna", "historialEstado.create"} :
       PostReabrir(u, id, f)
  \/ \E u \in UsuarioIds, id \in IdsPedidos, h \in HorasPedidas,
        f \in {"ninguna", "ticket.update"} :
       PostTrabajo(u, id, h, f)
  \/ \E u \in UsuarioIds, id \in IdsPedidos, b \in CuerposActualizar :
       PutTicket(u, id, b, "ninguna")
  \/ \E u \in UsuarioIds, ids \in ListasPedidas, a \in AgentesPedidos :
       PostBulkAssign(u, ids, a, "ninguna")
  \/ \E u \in UsuarioIds, ids \in ListasPedidas, e \in EstadosPedidos :
       PostBulkStatus(u, ids, e, "ninguna")
  \/ \E u \in UsuarioIds, q \in Consultas :
       GetTickets(u, q, "ninguna")
  \/ \E u \in UsuarioIds, q \in Consultas :
       GetExportCsv(u, q, "ninguna")
  \/ \E u \in UsuarioIds, id \in IdsPedidos :
       GetTicket(u, id, "ninguna")
  \/ \E u \in UsuarioIds, id \in UsuariosGestionados, b \in CuerposUsuario :
       PutUsuario(u, id, b, "ninguna")
  \/ \E u \in UsuarioIds, id \in UsuariosGestionados :
       DeleteUsuario(u, id, "ninguna")
  \/ \E u \in UsuarioIds, id \in UsuariosGestionados :
       PostActivar(u, id, "ninguna")

Spec == Init /\ [][Next]_vars

----------------------------------------------------------------------------
(* PATCH /api/tickets/:id/estado, await by await.  Node serves a request   *)
(* until its next await and then turns to another, so two cambiarEstado    *)
(* calls interleave at their store calls.                                  *)

\* the requests that may be in flight together
Peticiones == {"p1", "p2"}

\* A request in flight: whose it is, what it asks, the await it stands at,
\* the estado its findUnique read, and the status answered.  `viejo` is a
\* history field: since this request read the ticket, another request has
\* updated it to an estado other than the one read.
Peticion(u, id, estado, pc, codigo) ==
  [ u |-> u, id |-> id, estado |-> estado, pc |-> pc,
    ticketActual |-> NULL, codigo |-> codigo, viejo |-> FALSE ]

\* one ticket, as POST /api/tickets by cliente1 leaves it, or as a later
\* PUT /api/tickets/t1 {horasReales: 0} by the admin leaves it
InitRace ==
  /\ usuarios = UsuariosSembrados
  /\ \E h \in {SinValor, Valor(0)} :
       tickets = ("t1" :> [Ticket(<<PREFIJO, padStart(Decimales(1))>>, "cliente1", "d1", "c1")
                       EXCEPT !.horasReales = h])
  /\ historial =
       [id \in IdsPedidos |->
          IF id = "t1"
            THEN <<HistorialEstado(NULL, "ABIERTO", <<"Ticket creado">>)>>
            ELSE <<>>]
  /\ registros = [id \in IdsPedidos |-> <<>>]
  /\ entradas = ("t1" :> [resuelto |-> FALSE, cerrado |-> FALSE])
  /\ pasos = 0
  /\ enVuelo = [p \in {} |-> NULL]
  /\ emitidos = <<<<PREFIJO, padStart(Decimales(1))>>>>
  /\ comentarios = [id \in IdsPedidos |-> <<>>]
  /\ sesiones = SesionesSembradas

\* the request arrives and runs the middleware: ticketValidation.updateStatus
\* and verifyOwnership('ticket')
RecibirEstado(p, u, id, estado) ==
  /\ p \notin DOMAIN enVuelo
  /\ u \in Autenticados
  /\ enVuelo' =
       enVuelo @@
         (p :> IF estado \notin EstadoTicket
                 THEN Peticion(u, id, estado, "respondido", "400")
               ELSE IF verifyOwnership(u, id) # "next"
                 THEN Peticion(u, id, estado, "respondido",
                               verifyOwnership(u, id))
               ELSE IF estado \notin estadosValidos
                 THEN Peticion(u, id, estado, "respondido", "400")
               ELSE Peticion(u, id, estado, "findUnique", NULL))
  /\ UNCHANGED <<usuarios, tickets, historial, registros, entradas, pasos,
                 emitidos,
                 comentarios, sesiones>>

\* const ticketActual = await prisma.ticket.findUnique(...)
LeerTicketActual(p) ==
  /\ p \in DOMAIN enVuelo
  /\ enVuelo[p].pc = "findUnique"
  /\ enVuelo' =
       [enVuelo EXCEPT ![p] =
          IF enVuelo[p].id \in DOMAIN tickets
            THEN [@ EXCEPT !.pc = "update",
                           !.ticketActual = tickets[enVuelo[p].id].estado]
            ELSE [@ EXCEPT !.pc = "respondido", !.codigo = "404"]]
  /\ UNCHANGED <<usuarios, tickets, historial, registros, entradas, pasos,
                 emitidos,
                 comentarios, sesiones>>

\* await prisma.ticket.update({where: {id}, data: updateData})
ActualizarEstado(p) ==
  /\ p \in DOMAIN enVuelo
  /\ enVuelo[p].pc = "update"
  /\ LET actualizados ==
           update(enVuelo[p].id, updateDataEstado(enVuelo[p].estado))
     IN  /\ tickets' = actualizados
         /\ entradas' = Entradas(actualizados, {})
  /\ enVuelo' =
       [q \in DOMAIN enVuelo |->
          IF q = p
            THEN [enVuelo[q] EXCEPT !.pc = "historialEstado.create"]
          ELSE IF /\ enVuelo[q].id = enVuelo[p].id
                  /\ enVuelo[q].pc = "update"
                  /\ enVuelo[q].ticketActual # enVuelo[p].estado
            THEN [enVuelo[q] EXCEPT !.viejo = TRUE]
          ELSE enVuelo[q]]
  /\ UNCHANGED <<usuarios, historial, registros, pasos, emitidos, comentarios,
                 sesiones>>

\* await prisma.historialEstado.create(...) and res.json(...)
RegistrarHistorial(p) ==
  /\ p \in DOMAIN enVuelo
  /\ enVuelo[p].pc = "historialEstado.create"
  /\ historial' =
       crearHistorial(enVuelo[p].id,
         HistorialEstado(enVuelo[p].ticketActual, enVuelo[p].estado,
                         comentarioEstado(NULL, enVuelo[p].estado)))
  /\ enVuelo' = [enVuelo EXCEPT ![p].pc = "respondido", ![p].codigo = "200"]
  /\ pasos' = pasos + 1
  /\ UNCHANGED <<usuarios, tickets, registros, entradas, emitidos, comentarios,
                 sesiones>>

\* A POST /:id/trabajo request in flight: a Peticion with the horas it logs
PeticionTrabajo(u, id, horas, pc, codigo) ==
  [ u |-> u, id |-> id, estado |-> NULL, horas |-> horas, pc |-> pc,
    ticketActual |-> NULL, codigo |-> codigo, viejo |-> FALSE ]

\* the request arrives and runs the middleware: ticketValidation.addWorkLog,
\* authorize([AGENTE, JEFE_DEPARTAMENTO]) and verifyOwnership('ticket')
RecibirTrabajo(p, u, id, horas) ==
  /\ p \notin DOMAIN enVuelo
  /\ u \in Autenticados
  /\ enVuelo' =
       enVuelo @@
         (p :> IF horas < 1 \/ horas > HorasMaximas
                 THEN PeticionTrabajo(u, id, horas, "respondido", "400")
               ELSE IF ~authorize({"AGENTE", "JEFE_DEPARTAMENTO"}, u)
                 THEN PeticionTrabajo(u, id, horas, "respondido", "403")
               ELSE IF verifyOwnership(u, id) # "next"
                 THEN PeticionTrabajo(u, id, horas, "respondido",
                                      verifyOwnership(u, id))
               ELSE PeticionTrabajo(u, id, horas,
                                    "registroTrabajo.create", NULL))
  /\ UNCHANGED <<usuarios, tickets, historial, registros, entradas, pasos,
                 emitidos,
                 comentarios, sesiones>>

\* await prisma.registroTrabajo.create(...)
CrearRegistro(p) ==
  /\ p \in DOMAIN enVuelo
  /\ enVuelo[p].pc = "registroTrabajo.create"
  /\ registros' =
       [registros EXCEPT
          ![enVuelo[p].id] =
            Append(@, RegistroTrabajo(enVuelo[p].u, enVuelo[p].horas))]
  /\ enVuelo' = [enVuelo EXCEPT ![p].pc = "increment"]
  /\ UNCHANGED <<usuarios, tickets, historial, entradas, pasos, emitidos,
                 comentarios, sesiones>>

\* await prisma.ticket.update({data: {horasReales: {increment}}}) and
\* res.status(201): the store adds to the column in one statement
IncrementarHoras(p) ==
  /\ p \in DOMAIN enVuelo
  /\ enVuelo[p].pc = "increment"
  /\ tickets' =
       update(enVuelo[p].id,
              [horasReales |->
                 increment(tickets[enVuelo[p].id].horasReales,
                           enVuelo[p].horas)])
  /\ enVuelo' = [enVuelo EXCEPT ![p].pc = "respondido", ![p].codigo = "201"]
  /\ pasos' = pasos + 1
  /\ UNCHANGED <<usuarios, historial, registros, entradas, emitidos, comentarios,
                 sesiones>>

NextRace ==
  \/ \E p \in Peticiones, u \in UsuarioIds, id \in IdsPedidos,
        e \in EstadosPedidos :
       RecibirEstado(p, u, id, e)
  \/ \E p \in Peticiones : LeerTicketActual(p)
  \/ \E p \in Peticiones : ActualizarEstado(p)
  \/ \E p \in Peticiones : RegistrarHistorial(p)
  \/ \E p \in Peticiones, u \in UsuarioIds, id \in IdsPedidos,
        h \in HorasPedidas :
       RecibirTrabajo(p, u, id, h)
  \/ \E p \in Peticiones : CrearRegistro(p)
  \/ \E p \in Peticiones : IncrementarHoras(p)

SpecRace == InitRace /\ [][NextRace]_vars

----------------------------------------------------------------------------
(* POST /api/tickets, await by await, with DELETE /api/tickets/:id: the    *)
(* ticket numbers of one month.                                            *)

\* uuids the store gives to the rows of tickets here
IdsNumeros == {"t1", "t2"}

\* A POST /api/tickets request in flight: whose it is, the body, the number
\* generateTicketNumber gave it, the row it inserted, the await it stands
\* at, the status answered and the store error behind a 500.
PeticionCrear(u, departamentoId, categoriaId, numeroTicket) ==
  [ u |-> u, departamentoId |-> departamentoId, categoriaId |-> categoriaId,
    numeroTicket |-> numeroTicket, id |-> NULL, pc |-> "ticket.create",
    codigo |-> NULL, error |-> NULL ]

InitNumeros ==
  /\ usuarios = UsuariosSembrados
  /\ tickets = [id \in {} |-> NULL]
  /\ historial = [id \in IdsNumeros |-> <<>>]
  /\ registros = [id \in IdsNumeros |-> <<>>]
  /\ entradas = [id \in {} |-> NULL]
  /\ pasos = 0
  /\ enVuelo = [p \in {} |-> NULL]
  /\ emitidos = <<>>
  /\ comentarios = [id \in IdsNumeros |-> <<>>]
  /\ sesiones = SesionesSembradas

\* the request arrives: const numeroTicket = await generateTicketNumber()
GenerarNumero(p, u, departamentoId, categoriaId, falla) ==
  /\ p \notin DOMAIN enVuelo
  /\ u \in Autenticados
  /\ enVuelo' =
       enVuelo @@
         (p :> PeticionCrear(u, departamentoId, categoriaId,
                             generateTicketNumber(falla)))
  /\ UNCHANGED <<usuarios, tickets, historial, registros, entradas, pasos,
                 emitidos,
                 comentarios, sesiones>>

\* await prisma.ticket.create(...): the unique index on numeroTicket
\* rejects a number already in the table (P2002), and the catch block
\* answers 500
InsertarTicket(p) ==
  /\ p \in DOMAIN enVuelo
  /\ enVuelo[p].pc = "ticket.create"
  /\ IF numeroLibre(enVuelo[p].numeroTicket)
       THEN LET id == CHOOSE x \in IdsNumeros \ DOMAIN tickets : TRUE
                creado == tickets @@
                            (id :> Ticket(enVuelo[p].numeroTicket,
                                          enVuelo[p].u,
                                          enVuelo[p].departamentoId,
                                          enVuelo[p].categoriaId))
            IN  /\ tickets' = creado
                /\ entradas' = Entradas(creado, {})
                /\ emitidos' = Emitidos(creado)
                /\ enVuelo' =
                     [enVuelo EXCEPT ![p].id = id,
                                     ![p].pc = "historialEstado.create"]
                /\ pasos' = pasos
       ELSE /\ enVuelo' =
                 [enVuelo EXCEPT ![p].pc = "respondido",
                                 ![p].codigo = "500",
                                 ![p].error = "P2002"]
            /\ pasos' = pasos + 1
            /\ UNCHANGED <<tickets, entradas, emitidos>>
  /\ UNCHANGED <<usuarios, historial, registros, comentarios, sesiones>>

\* await prisma.historialEstado.create(...) and res.status(201); the
\* foreign key rejects the row of a ticket deleted meanwhile (P2003)
RegistrarCreacion(p) ==
  /\ p \in DOMAIN enVuelo
  /\ enVuelo[p].pc = "historialEstado.create"
  /\ IF enVuelo[p].id \in DOMAIN tickets
          /\ tickets[enVuelo[p].id].numeroTicket = enVuelo[p].numeroTicket
       THEN /\ historial' =
                 crearHistorial(enVuelo[p].id,
                   HistorialEstado(NULL, "ABIERTO", <<"Ticket creado">>))
            /\ enVuelo' = [enVuelo EXCEPT ![p].pc = "respondido",
                                          ![p].codigo = "201"]
       ELSE /\ historial' = historial
            /\ enVuelo' = [enVuelo EXCEPT ![p].pc = "respondido",
                                          ![p].codigo = "500",
                                          ![p].error = "P2003"]
  /\ pasos' = pasos + 1
  /\ UNCHANGED <<usuarios, tickets, registros, entradas, emitidos, comentarios,
                 sesiones>>

\* prisma.ticket.delete({where: {id}}): the row goes, and its history and
\* work-log rows with it (onDelete: Cascade)
eliminarTicket(id) ==
  IF id \notin DOMAIN tickets
    THEN Rechazo("500")
    ELSE Resultado("200",
           [t \in DOMAIN tickets \ {id} |-> tickets[t]],
           [historial EXCEPT ![id] = <<>>],
           [registros EXCEPT ![id] = <<>>], {}, {})

\* validateUuidParam, authorize([ADMIN]), eliminarTicket
RutaEliminar(u, id) ==
  IF ~authorize({"ADMIN"}, u) THEN Rechazo("403") ELSE eliminarTicket(id)

DeleteTicket(u, id) ==
  /\ Pendiente
  /\ u \in Autenticados
  /\ LET res == RutaEliminar(u, id)
     IN  /\ tickets' = res.tickets
         /\ historial' = res.historial
         /\ registros' = res.registros
         /\ entradas' = [t \in DOMAIN res.tickets |-> entradas[t]]
  /\ pasos' = pasos + 1
  /\ UNCHANGED <<usuarios, enVuelo, emitidos, comentarios, sesiones>>

NextNumeros ==
  \/ \E p \in Peticiones, u \in Creadores, d \in Departamentos,
        c \in Categorias, f \in {"ninguna", "ticket.findFirst"} :
       GenerarNumero(p, u, d, c, f)
  \/ \E p \in Peticiones : InsertarTicket(p)
  \/ \E p \in Peticiones : RegistrarCreacion(p)
  \/ \E u \in UsuarioIds, id \in IdsNumeros :
       DeleteTicket(u, id)

SpecNumeros == InitNumeros /\ [][NextNumeros]_vars

----------------------------------------------------------------------------
(* Comments of a ticket: POST /api/tickets/:id/comentarios,                *)
(* GET /api/comentarios/:id and the comentarios GET /api/tickets/:id        *)
(* embeds.                                                                  *)
(***************************************************************************)

\* model Comentario: the columns the access checks read
Comentario(autorId, esInterno) ==
  [ autorId |-> autorId, esInterno |-> esInterno ]

\* what a comment request comes to: the status answered, the comentarios
\* table as it is left, and the comments the response carries
ResultadoComentarios(codigo, cs, respuesta) ==
  [ codigo |-> codigo, comentarios |-> cs, respuesta |-> respuesta ]

\* Bodies of POST /api/tickets/:id/comentarios: esInterno is optional
CuerposComentario ==
  {[contenido |-> "nota"]}
    \cup {[contenido |-> "nota", esInterno |-> i] : i \in BOOLEAN}

crearComentario(u, id, body) ==
  IF id \notin DOMAIN tickets
    THEN ResultadoComentarios("404", comentarios, <<>>)
  ELSE LET esInterno ==
             IF "esInterno" \in DOMAIN body THEN body.esInterno ELSE FALSE
           comentario == Comentario(u, esInterno)
       IN  ResultadoComentarios("201",
             [comentarios EXCEPT ![id] = Append(@, comentario)],
             <<comentario>>)

\* commentValidation.create, verifyOwnership('ticket'), crearComentario
RutaComentar(u, id, body) ==
  IF verifyOwnership(u, id) # "next"
    THEN ResultadoComentarios(verifyOwnership(u, id), comentarios, <<>>)
  ELSE crearComentario(u, id, body)

PostComentario(u, id, body) ==
  /\ Pendiente
  /\ u \in Autenticados
  /\ comentarios' = RutaComentar(u, id, body).comentarios
  /\ pasos' = pasos + 1
  /\ UNCHANGED <<usuarios, tickets, historial, registros, entradas, enVuelo,
                 emitidos, sesiones>>

\* A comment's uuid is the ticket it belongs to and its place among the
\* ticket's comments.
obtenerComentarioPorId(u, id, n) ==
  IF id \notin DOMAIN tickets \/ n \notin 1..Len(comentarios[id])
    THEN ResultadoComentarios("404", comentarios, <<>>)
  ELSE LET usuario == usuarios[u]
           ticket == tickets[id]
           comentario == comentarios[id][n]
           tieneAcceso ==
             \/ usuario.rol = "ADMIN"
             \/ /\ usuario.rol = "JEFE_DEPARTAMENTO"
                /\ ticket.departamentoId = usuario.departamentoId
             \/ usuario.rol = "AGENTE" /\ ticket.agenteId = u
             \/ /\ usuario.rol = "CLIENTE"
                /\ ticket.creadorId = u
                /\ ~comentario.esInterno
       IN  IF ~tieneAcceso
             THEN ResultadoComentarios("403", comentarios, <<>>)
           ELSE ResultadoComentarios("200", comentarios, <<comentario>>)

GetComentario(u, id, n) ==
  /\ Pendiente
  /\ u \in Autenticados
  /\ comentarios' = obtenerComentarioPorId(u, id, n).comentarios
  /\ pasos' = pasos + 1
  /\ UNCHANGED <<usuarios, tickets, historial, registros, entradas, enVuelo,
                 emitidos, sesiones>>

\* the comentarios of the ticket GET /api/tickets/:id answers: the include
\* of its findUnique, ordered by creadoEn
comentariosDelTicket(u, id, falla) ==
  IF RutaObtener(u, id, falla).codigo = "200" THEN comentarios[id] ELSE <<>>

\* the places a comment request may name
LugaresPedidos == 1..MaxPasos

\* one ticket, as POST /api/tickets by cliente1 leaves it
InitComentarios ==
  /\ usuarios = UsuariosSembrados
  /\ tickets = ("t1" :> Ticket(<<PREFIJO, padStart(Decimales(1))>>,
                               "cliente1", "d1", "c1"))
  /\ historial =
       [id \in IdsPedidos |->
          IF id = "t1"
            THEN <<HistorialEstado(NULL, "ABIERTO", <<"Ticket creado">>)>>
            ELSE <<>>]
  /\ registros = [id \in IdsPedidos |-> <<>>]
  /\ entradas = ("t1" :> [resuelto |-> FALSE, cerrado |-> FALSE])
  /\ pasos = 0
  /\ enVuelo = [p \in {} |-> NULL]
  /\ emitidos = <<<<PREFIJO, padStart(Decimales(1))>>>>
  /\ comentarios = [id \in IdsPedidos |-> <<>>]
  /\ sesiones = SesionesSembradas

NextComentarios ==
  \/ \E u \in UsuarioIds, id \in IdsPedidos, b \in CuerposComentario :
       PostComentario(u, id, b)
  \/ \E u \in UsuarioIds, id \in IdsPedidos, n \in LugaresPedidos :
       GetComentario(u, id, n)
  \/ \E u \in UsuarioIds, id \in IdsPedidos,
        f \in {"ninguna", "ticket.findUnique"} :
       GetTicket(u, id, f)
  \/ \E u \in UsuarioIds, id \in IdsPedidos, a \in AgentesPedidos,
        f \in {"ninguna", "ticket.update", "historialEstado.create"} :
       PatchAsignar(u, id, a, f)

SpecComentarios == InitComentarios /\ [][NextComentarios]_vars

(***************************************************************************)
(* POST /api/auth/login, POST /api/auth/refresh and POST /api/auth/logout,  *)
(* with the user routes and POST /api/tickets: sessions and the accounts    *)
(* they belong to.  An account's email is its key in usuarios.              *)
(***************************************************************************)

\* what an auth request comes to: the status answered, the sesiones table
\* as it is left, and the access token of the response
ResultadoAuth(codigo, ss, accessToken) ==
  [ codigo |-> codigo, sesiones |-> ss, accessToken |-> accessToken ]

\* login without its check of estaActivo
loginSinEstaActivo(email, password, falla) ==
  IF email \notin DOMAIN usuarios
    THEN ResultadoAuth("401", sesiones, NULL)
  ELSE IF password # "correcta"
    THEN ResultadoAuth("401", sesiones, NULL)
  ELSE LET accessToken == Token(email, pasos, "access", "JWT_SECRET")
       IN  IF \/ falla = "sesionActiva.create"
              \/ accessToken \in {s.token : s \in sesiones}
             THEN ResultadoAuth("500", sesiones, NULL)
           ELSE IF falla = "usuario.update"
             THEN ResultadoAuth("500",
                    sesiones \cup {Sesion(email, accessToken)}, NULL)
           ELSE ResultadoAuth("200",
                  sesiones \cup {Sesion(email, accessToken)}, accessToken)

\* login: bcrypt.compare holds of the password "correcta"; iat is the
\* model's clock, pasos.  The token column of a session is unique, so
\* sesionActiva.create rejects a token a session already holds.
login(email, password, falla) ==
  IF email \notin DOMAIN usuarios
    THEN ResultadoAuth("401", sesiones, NULL)
  ELSE IF ~usuarios[email].estaActivo
    THEN ResultadoAuth("403", sesiones, NULL)
  ELSE IF password # "correcta"
    THEN ResultadoAuth("401", sesiones, NULL)
  ELSE LET accessToken == Token(email, pasos, "access", "JWT_SECRET")
       IN  IF \/ falla = "sesionActiva.create"
              \/ accessToken \in {s.token : s \in sesiones}
             THEN ResultadoAuth("500", sesiones, NULL)
           ELSE IF falla = "usuario.update"
             THEN ResultadoAuth("500",
                    sesiones \cup {Sesion(email, accessToken)}, NULL)
           ELSE ResultadoAuth("200",
                  sesiones \cup {Sesion(email, accessToken)}, accessToken)

PostLogin(email, password, falla) ==
  /\ Pendiente
  /\ sesiones' = login(email, password, falla).sesiones
  /\ pasos' = pasos + 1
  /\ UNCHANGED <<usuarios, tickets, historial, registros, entradas, enVuelo,
                 emitidos, comentarios>>

\* refresh: any token the secret signed verifies; updateMany gives the new
\* access token to every session of the user, which the unique token column
\* rejects when the user has more than one
refresh(refreshToken, falla) ==
  IF refreshToken.firma # "JWT_SECRET"
    THEN ResultadoAuth("401", sesiones, NULL)
  ELSE IF \/ refreshToken.userId \notin DOMAIN usuarios
          \/ ~usuarios[refreshToken.userId].estaActivo
    THEN ResultadoAuth("401", sesiones, NULL)
  ELSE LET accessToken ==
             Token(refreshToken.userId, pasos, "access", "JWT_SECRET")
           suyas == {s \in sesiones : s.usuarioId = refreshToken.userId}
       IN  IF \/ falla = "sesionActiva.updateMany"
              \/ Cardinality(suyas) > 1
             THEN ResultadoAuth("500", sesiones, NULL)
           ELSE ResultadoAuth("200",
                  {IF s.usuarioId = refreshToken.userId
                     THEN Sesion(s.usuarioId, accessToken) ELSE s :
                   s \in sesiones},
                  accessToken)

PostRefresh(refreshToken, falla) ==
  /\ Pendiente
  /\ sesiones' = refresh(refreshToken, falla).sesiones
  /\ pasos' = pasos + 1
  /\ UNCHANGED <<usuarios, tickets, historial, registros, entradas, enVuelo,
                 emitidos, comentarios>>

\* logout: deleteMany of the sessions of the request's user and token
logout(token) ==
  ResultadoAuth("200",
    {s \in sesiones : ~(s.usuarioId = token.userId /\ s.token = token)},
    NULL)

\* authenticate, logout
PostLogout(token) ==
  /\ Pendiente
  /\ authenticate(token) = "next"
  /\ sesiones' = logout(token).sesiones
  /\ pasos' = pasos + 1
  /\ UNCHANGED <<usuarios, tickets, historial, registros, entradas, enVuelo,
                 emitidos, comentarios>>

\* the emails of a login: the accounts and one of no account
EmailsPedidos == UsuarioIds \cup {"nadie"}

\* the passwords of a login
PasswordsPedidas == {"correcta", "otra"}

\* The tokens a request may carry: those a login or a refresh may have
\* issued for an account, and ones signed with another secret.
TokensPedidos ==
  { Token(u, i, uso, firma) :
      u \in EmailsPedidos, i \in 0..MaxPasos, uso \in {"access", "refresh"},
      firma \in {"JWT_SECRET", "otra"} }

NextSesiones ==
  \/ \E e \in EmailsPedidos, p \in PasswordsPedidas,
        f \in {"ninguna", "sesionActiva.create", "usuario.update"} :
       PostLogin(e, p, f)
  \/ \E t \in TokensPedidos, f \in {"ninguna", "sesionActiva.updateMany"} :
       PostRefresh(t, f)
  \/ \E t \in TokensPedidos : PostLogout(t)
  \/ \E u \in Creadores, d \in Departamentos, c \in Categorias :
       PostTickets(u, d, c, "ninguna")
  \/ \E u \in UsuarioIds, id \in UsuariosGestionados, b \in CuerposUsuario,
        f \in {"ninguna", "usuario.update"} :
       PutUsuario(u, id, b, f)
  \/ \E u \in UsuarioIds, id \in UsuariosGestionados,
        f \in {"ninguna", "usuario.update"} :
       DeleteUsuario(u, id, f)
  \/ \E u \in UsuarioIds, id \in UsuariosGestionados,
        f \in {"ninguna", "usuario.update"} :
       PostActivar(u, id, f)

SpecSesiones == Init /\ [][NextSesiones]_vars

(***************************************************************************)
(* Notification fan-out.  A request does its own writes in one step, as its *)
(* route of the lifecycle has them, and then awaits the calls of its       *)
(* fan-out one by one: prisma.notificacion.create, the PDF report and the  *)
(* email are collaborators that resolve, reject or never answer.           *)
(***************************************************************************)

\* model Notificacion: the columns that say whom the row tells of what
Notificacion(usuarioId, ticketId, titulo) ==
  [ usuarioId |-> usuarioId, ticketId |-> ticketId, titulo |-> titulo ]

\* a call a fan-out awaits: the collaborator and, for
\* prisma.notificacion.create, the row
Llamada(servicio, fila) == [ servicio |-> servicio, fila |-> fila ]

\* crearNotificacion: await prisma.notificacion.create({data}); a rejection
\* is logged and thrown again
crearNotificacion(usuarioId, titulo, ticketId) ==
  Llamada("notificacion.create", Notificacion(usuarioId, ticketId, titulo))

\* pdfService.generarReporteTicket(ticket)
generarReporteTicket(id) ==
  Llamada("pdfService", Notificacion(NULL, id, NULL))

\* emailService.enviarReporteTicket, emailService.enviarNotificacionNuevoTicket
enviarEmail(id) == Llamada("emailService", Notificacion(NULL, id, NULL))

\* notificarNuevoTicket: a row for every active head of the ticket's
\* department and every active admin, then one email to them all
notificarNuevoTicket(id, departamentoId) ==
  LET destinatarios ==
        {d \in DOMAIN usuarios :
           /\ usuarios[d].estaActivo
           /\ \/ usuarios[d].rol = "ADMIN"
              \/ /\ usuarios[d].rol = "JEFE_DEPARTAMENTO"
                 /\ usuarios[d].departamentoId = departamentoId}
      RECURSIVE Filas(_)
      Filas(ds) ==
        IF ds = {} THEN <<>>
        ELSE LET d == CHOOSE x \in ds : TRUE
             IN  <<crearNotificacion(d, "Nuevo ticket", id)>>
                   \o Filas(ds \ {d})
  IN  Filas(destinatarios)
        \o (IF destinatarios # {} THEN <<enviarEmail(id)>> ELSE <<>>)

\* notificarAsignacionTicket: a row for the agent, then one for the creator
notificarAsignacionTicket(id, creadorId, agenteId) ==
  << crearNotificacion(agenteId, "Ticket asignado", id),
     crearNotificacion(creadorId, "Ticket asignado", id) >>

\* notificarCambioEstado: a row for the creator and, when the new estado is
\* CERRADO, the PDF report and the email that carries it
notificarCambioEstado(id, creadorId, estadoNuevo) ==
  <<crearNotificacion(creadorId, "Ticket actualizado", id)>>
    \o (IF estadoNuevo = "CERRADO"
          THEN <<generarReporteTicket(id), enviarEmail(id)>>
          ELSE <<>>)

\* notificarNuevoComentario: a row for the creator and one for the agent,
\* the author of the comment left out
notificarNuevoComentario(id, creadorId, agenteId, autorId) ==
  (IF creadorId # autorId
     THEN <<crearNotificacion(creadorId, "Nuevo comentario", id)>>
     ELSE <<>>)
    \o (IF agenteId # NULL /\ agenteId # autorId
          THEN <<crearNotificacion(agenteId, "Nuevo comentario", id)>>
          ELSE <<>>)

\* A request of this specification: its route and user, the tickets its own
\* writes changed, the estado or agent it gave them, the status it answers
\* as things stand, and the calls of its fan-out still to make.  History
\* fields: exito, its own writes all succeeded; avisos, the notification
\* rows it created; llamados, the collaborators it called; fallo, a call of
\* its fan-out rejected.
PeticionAviso(u, ruta, ids, valor, codigo, pendientes) ==
  [ u |-> u, ruta |-> ruta, ids |-> ids, valor |-> valor,
    codigo |-> codigo,
    exito |-> codigo \in {"200", "201"},
    pendientes |-> IF codigo \in {"200", "201"} THEN pendientes ELSE <<>>,
    pc |-> IF codigo \in {"200", "201"} /\ pendientes # <<>>
             THEN "llamar" ELSE "respondida",
    avisos |-> {}, llamados |-> {}, fallo |-> FALSE ]

\* a catch block that answers 500 for a fan-out that failed
capturarYFallar(peticion) ==
  [peticion EXCEPT !.pendientes = <<>>, !.fallo = TRUE, !.pc = "llamar",
                   !.codigo = "500"]

\* catch (error) { logger.error(...) } of the notificar... methods: the rest
\* of the fan-out is skipped and the request goes on to its answer
capturar(peticion) ==
  [peticion EXCEPT !.pendientes = <<>>, !.fallo = TRUE, !.pc = "llamar"]

\* the request arrives, passes its middleware and does its own writes: r is
\* what its route comes to
Recibir(p, u, r, peticion) ==
  /\ p \notin DOMAIN enVuelo
  /\ u \in Autenticados
  /\ tickets' = r.tickets
  /\ historial' = r.historial
  /\ registros' = r.registros
  /\ entradas' = Entradas(r.tickets, r.reabiertos)
  /\ emitidos' = Emitidos(r.tickets)
  /\ enVuelo' = enVuelo @@ (p :> peticion)
  /\ pasos' = pasos + 1
  /\ UNCHANGED <<usuarios, comentarios, sesiones>>

\* POST /api/tickets
AvisarCreacion(p, u, departamentoId, categoriaId) ==
  /\ Pendiente
  /\ TicketIds \ DOMAIN tickets # {}
  /\ LET r == RutaCrear(u, departamentoId, categoriaId, "ninguna")
     IN  Recibir(p, u, r,
           PeticionAviso(u, "crear", DOMAIN r.tickets \ DOMAIN tickets,
             "ABIERTO", r.codigo,
             notificarNuevoTicket(NuevoId, departamentoId)))

\* PATCH /api/tickets/:id/asignar
AvisarAsignacion(p, u, id, agenteId) ==
  /\ Pendiente
  /\ LET r == RutaAsignar(u, id, agenteId, "ninguna")
     IN  Recibir(p, u, r,
           PeticionAviso(u, "asignar", {id}, agenteId, r.codigo,
             IF id \in DOMAIN tickets
               THEN notificarAsignacionTicket(id, tickets[id].creadorId,
                                              agenteId)
               ELSE <<>>))

\* PATCH /api/tickets/:id/estado
AvisarEstado(p, u, id, estado) ==
  /\ Pendiente
  /\ LET r == RutaEstado(u, id, estado, NULL, "ninguna")
     IN  Recibir(p, u, r,
           PeticionAviso(u, "estado", {id}, estado, r.codigo,
             IF id \in DOMAIN tickets
               THEN notificarCambioEstado(id, tickets[id].creadorId, estado)
               ELSE <<>>))

\* POST /api/tickets/:id/reabrir: no fan-out
AvisarReapertura(p, u, id) ==
  /\ Pendiente
  /\ LET r == RutaReabrir(u, id, "ninguna")
     IN  Recibir(p, u, r,
           PeticionAviso(u, "reabrir", {id}, "ABIERTO", r.codigo, <<>>))

\* POST /api/tickets/bulk/assign: no fan-out
AvisarAsignacionMasiva(p, u, ticketIds, agenteId) ==
  /\ Pendiente
  /\ LET r == RutaBulkAssign(u, ticketIds, agenteId, "ninguna")
     IN  Recibir(p, u, r,
           PeticionAviso(u, "bulk/assign",
             {id \in ticketIds \cap DOMAIN tickets :
                tickets[id].estado \in {"ABIERTO", "EN_PROGRESO"}},
             agenteId, r.codigo, <<>>))

\* POST /api/tickets/bulk/status: no fan-out
AvisarEstadoMasivo(p, u, ticketIds, estado) ==
  /\ Pendiente
  /\ LET r == RutaBulkStatus(u, ticketIds, estado, "ninguna")
     IN  Recibir(p, u, r,
           PeticionAviso(u, "bulk/status", ticketIds \cap DOMAIN tickets,
             estado, r.codigo, <<>>))

\* POST /api/tickets/:id/comentarios: the fan-out is for a comment that is
\* not internal
AvisarComentario(p, u, id, body) ==
  /\ Pendiente
  /\ p \notin DOMAIN enVuelo
  /\ u \in Autenticados
  /\ LET r == RutaComentar(u, id, body)
         interno == "esInterno" \in DOMAIN body /\ body.esInterno
     IN  /\ comentarios' = r.comentarios
         /\ enVuelo' =
              enVuelo @@
                (p :> PeticionAviso(u, "comentarios", {id}, NULL, r.codigo,
                        IF id \in DOMAIN tickets /\ ~interno
                          THEN notificarNuevoComentario(id,
                                 tickets[id].creadorId, tickets[id].agenteId,
                                 u)
                          ELSE <<>>))
  /\ pasos' = pasos + 1
  /\ UNCHANGED <<usuarios, tickets, historial, registros, entradas, emitidos,
                 sesiones>>

\* the request makes the next call of its fan-out and awaits it
Llamar(p) ==
  /\ p \in DOMAIN enVuelo
  /\ enVuelo[p].pc = "llamar"
  /\ enVuelo[p].pendientes # <<>>
  /\ enVuelo' =
       [enVuelo EXCEPT
          ![p].pc = "esperando",
          ![p].llamados = @ \cup {Head(enVuelo[p].pendientes).servicio}]
  /\ UNCHANGED <<usuarios, tickets, historial, registros, entradas, pasos,
                 emitidos, comentarios, sesiones>>

\* the collaborator resolves the call: the store has created the row, the
\* report is made, the email is sent
Resolver(p) ==
  /\ p \in DOMAIN enVuelo
  /\ enVuelo[p].pc = "esperando"
  /\ enVuelo' =
       [enVuelo EXCEPT
          ![p].pc = "llamar",
          ![p].pendientes = Tail(@),
          ![p].avisos =
            IF Head(enVuelo[p].pendientes).servicio = "notificacion.create"
              THEN @ \cup {Head(enVuelo[p].pendientes).fila}
              ELSE @]
  /\ UNCHANGED <<usuarios, tickets, historial, registros, entradas, pasos,
                 emitidos, comentarios, sesiones>>

\* the collaborator rejects the call
Rechazar(p) ==
  /\ p \in DOMAIN enVuelo
  /\ enVuelo[p].pc = "esperando"
  /\ enVuelo' = [enVuelo EXCEPT ![p] = capturar(enVuelo[p])]
  /\ UNCHANGED <<usuarios, tickets, historial, registros, entradas, pasos,
                 emitidos, comentarios, sesiones>>

\* res.json(...): the fan-out is over and the request is answered
Responder(p) ==
  /\ p \in DOMAIN enVuelo
  /\ enVuelo[p].pc = "llamar"
  /\ enVuelo[p].pendientes = <<>>
  /\ enVuelo' = [enVuelo EXCEPT ![p].pc = "respondida"]
  /\ UNCHANGED <<usuarios, tickets, historial, registros, entradas, pasos,
                 emitidos, comentarios, sesiones>>

\* no ticket yet, or one ticket as POST /api/tickets by cliente1 leaves it
InitAvisos == Init \/ InitComentarios

\* the users whose requests this specification sends
Remitentes == {"admin", "cliente1"}

NextAvisos ==
  \/ \E p \in Peticiones, u \in Creadores, d \in Departamentos :
       AvisarCreacion(p, u, d, "c1")
  \/ \E p \in Peticiones, u \in Remitentes, id \in IdsPedidos,
        a \in {"agente1", "nadie"} :
       AvisarAsignacion(p, u, id, a)
  \/ \E p \in Peticiones, u \in Remitentes, id \in IdsPedidos,
        e \in {"EN_ESPERA", "CERRADO", "OTRO"} :
       AvisarEstado(p, u, id, e)
  \/ \E p \in Peticiones, u \in Remitentes, id \in IdsPedidos :
       AvisarReapertura(p, u, id)
  \/ \E p \in Peticiones, u \in Remitentes, ids \in ListasPedidas,
        a \in {"agente1", "nadie"} :
       AvisarAsignacionMasiva(p, u, ids, a)
  \/ \E p \in Peticiones, u \in Remitentes, ids \in ListasPedidas,
        e \in {"EN_ESPERA", "CERRADO"} :
       AvisarEstadoMasivo(p, u, ids, e)
  \/ \E p \in Peticiones, u \in Remitentes, id \in IdsPedidos,
        b \in CuerposComentario :
       AvisarComentario(p, u, id, b)
  \/ \E p \in Peticiones : Llamar(p)
  \/ \E p \in Peticiones : Resolver(p)
  \/ \E p \in Peticiones : Rechazar(p)
  \/ \E p \in Peticiones : Responder(p)

\* Node runs a continuation that is ready: a request that can make its next
\* call or answer does so.  Nothing makes a collaborator answer.
SpecAvisos ==
  /\ InitAvisos
  /\ [][NextAvisos]_vars
  /\ \A p \in Peticiones : WF_vars(Llamar(p) \/ Responder(p))

(***************************************************************************)
(* Properties *)

\* the filters of a query string that gives none
SinFiltros == [agenteId |-> NULL, departamentoId |-> NULL, estado |-> NULL]

\* C1: every step that changes the estado of a ticket appends exactly one
\* historial_estados row to that ticket, and the row's estadoNuevo is the
\* estado the ticket now has.
C1_CambioDeEstadoConHistorial ==
  [][\A id \in DOMAIN tickets :
       tickets'[id].estado # tickets[id].estado =>
         /\ Len(historial'[id]) = Len(historial[id]) + 1
         /\ SubSeq(historial'[id], 1, Len(historial[id])) = historial[id]
         /\ historial'[id][Len(historial'[id])].estadoNuevo
              = tickets'[id].estado]_vars

\* C2: in every reachable state the historial_estados rows of each ticket,
\* in order, are a connected chain: the first has estadoAnterior null and
\* every later one has the estadoNuevo of the row before it as its
\* estadoAnterior.
C2_HistorialEncadenado ==
  \A id \in DOMAIN historial :
    LET h == historial[id]
    IN  /\ Len(h) > 0 => h[1].estadoAnterior = NULL
        /\ \A i \in 2..Len(h) : h[i].estadoAnterior = h[i - 1].estadoNuevo

\* C3: in every reachable state, a PATCH /:id/estado request, whichever of
\* its store calls rejects, either answers 200 having applied both the
\* ticket update and the one history row, or answers an error having
\* applied neither.
C3_TransicionAtomica ==
  \A u \in Autenticados, id \in IdsPedidos, e \in EstadosPedidos,
     c \in ComentariosPedidos,
     f \in {"ninguna", "ticket.findUnique", "ticket.update",
            "historialEstado.create"} :
    LET r == RutaEstado(u, id, e, c, f)
    IN  IF r.codigo = "200"
          THEN /\ r.tickets[id].estado = e
               /\ Len(r.historial[id]) = Len(historial[id]) + 1
          ELSE /\ r.tickets = tickets
               /\ r.historial = historial

\* C4: when two cambiarEstado requests race on a ticket and both read the
\* same prior estado, the one whose read was overtaken by the other's
\* update writes nothing more and is answered 409: it never goes on to its
\* history row and its 200.
C4_UnaSolaTransicionGana ==
  \A p \in DOMAIN enVuelo :
    enVuelo[p].viejo => enVuelo[p].pc = "update" \/ enVuelo[p].codigo = "409"

C6_ListadoDentroDelAlcance ==
  \A u \in Autenticados, q \in Consultas :
    \A id \in RutaListar(u, q, "ninguna").resultado
                \cup RutaExportar(u, q, "ninguna").resultado :
      Coincide(tickets[id],
               buildWhereClause(usuarios[u].rol,
                                usuarios[u].departamentoId, u))

\* C7: in every reachable state, a well-formed assign, bulk assign,
\* transition, bulk status change or reopen sent by the head of a
\* department for a ticket of another department is answered 403 and
\* leaves the tickets and the history as they were.
C7_JefeDeOtroDepartamentoRechazado ==
  \A u \in Autenticados, id \in DOMAIN tickets :
    (/\ usuarios[u].rol = "JEFE_DEPARTAMENTO"
     /\ tickets[id].departamentoId # usuarios[u].departamentoId) =>
      \A r \in {RutaAsignar(u, id, a, "ninguna") :
                  a \in {x \in AgentesPedidos : agenteValido(x)}}
            \cup {RutaBulkAssign(u, {id}, a, "ninguna") :
                    a \in {x \in AgentesPedidos : agenteValido(x)}}
            \cup {RutaEstado(u, id, e, NULL, "ninguna") : e \in EstadoTicket}
            \cup {RutaBulkStatus(u, {id}, e, "ninguna") : e \in EstadoTicket}
            \cup {RutaReabrir(u, id, "ninguna")} :
        /\ r.codigo = "403"
        /\ r.tickets = tickets
        /\ r.historial = historial

\* C8: in every reachable state, no request of an AGENTE or a CLIENTE, on
\* any route that writes tickets, leaves ABIERTO a ticket that was CERRADO.
C8_SoloAdminOJefeReabre ==
  \A u \in Autenticados, id \in DOMAIN tickets :
    (/\ usuarios[u].rol \in {"AGENTE", "CLIENTE"}
     /\ tickets[id].estado = "CERRADO") =>
      \A r \in {RutaEstado(u, id, e, NULL, "ninguna") : e \in EstadosPedidos}
            \cup {RutaAsignar(u, id, a, "ninguna") : a \in AgentesPedidos}
            \cup {RutaReabrir(u, id, "ninguna")}
            \cup {RutaTrabajo(u, id, h, "ninguna") : h \in HorasPedidas}
            \cup {RutaActualizar(u, id, b, "ninguna") :
                    b \in CuerposActualizar}
            \cup {RutaBulkAssign(u, {id}, a, "ninguna") :
                    a \in AgentesPedidos}
            \cup {RutaBulkStatus(u, {id}, e, "ninguna") :
                    e \in EstadosPedidos} :
        r.tickets[id].estado # "ABIERTO"

\* C9: in every reachable state and for every ticket, fechaResolucion is
\* set exactly when the ticket has entered RESUELTO since its last reopen
\* (or ever, if never reopened), and fechaCierre is set exactly when it has
\* entered CERRADO since then.
C9_FechasSegunEntradas ==
  \A id \in DOMAIN tickets :
    /\ (tickets[id].fechaResolucion # NULL) <=> entradas[id].resuelto
    /\ (tickets[id].fechaCierre # NULL) <=> entradas[id].cerrado

\* C10: in every reachable state and for every ticket, horasReales (a NULL
\* read as no hours) is the sum of the horas of the ticket's
\* registros_trabajo rows.
C10_HorasRealesIgualSuma ==
  LET RECURSIVE SumaHoras(_)
      SumaHoras(filas) ==
        IF filas = <<>> THEN 0 ELSE filas[1].horas + SumaHoras(Tail(filas))
  IN  \A id \in DOMAIN tickets :
        (IF tickets[id].horasReales = SinValor
           THEN 0 ELSE tickets[id].horasReales[1])
          = SumaHoras(registros[id])

\* C11: whenever the POST /:id/trabajo requests in flight on a ticket have
\* all been answered, the ticket's horasReales (a NULL read as no hours) has
\* grown, from the hours it started with, by exactly the sum of the horas
\* of the requests answered 201: no interleaving loses an increment.
C11_IncrementosNoSePierden ==
  LET RECURSIVE Logrado(_, _)
      Logrado(ps, id) ==
        IF ps = {} THEN 0
        ELSE LET p == CHOOSE x \in ps : TRUE
             IN  (IF enVuelo[p].id = id /\ enVuelo[p].codigo = "201"
                    THEN enVuelo[p].horas ELSE 0)
                   + Logrado(ps \ {p}, id)
  IN  \A id \in DOMAIN tickets :
        (\A p \in DOMAIN enVuelo :
           enVuelo[p].pc \notin {"registroTrabajo.create", "increment"}) =>
          (IF tickets[id].horasReales = SinValor
             THEN 0 ELSE tickets[id].horasReales[1])
            = Logrado(DOMAIN enVuelo, id)


\* C12: in every reachable state, a PATCH /:id/asignar answered 200 sets the
\* agenteId; if the ticket was ABIERTO it also makes it EN_PROGRESO and
\* appends exactly one history row, and if the ticket was in any other
\* estado it leaves the estado and the history as they were.
C12_AsignarSoloAbreEnProgreso ==
  \A u \in Autenticados, id \in DOMAIN tickets, a \in AgentesPedidos :
    LET r == RutaAsignar(u, id, a, "ninguna")
    IN  r.codigo = "200" =>
          /\ r.tickets[id].agenteId = a
          /\ IF tickets[id].estado = "ABIERTO"
               THEN /\ r.tickets[id].estado = "EN_PROGRESO"
                    /\ Len(r.historial[id]) = Len(historial[id]) + 1
               ELSE /\ r.tickets[id].estado = tickets[id].estado
                    /\ r.historial = historial


\* C13: in every reachable state, the agenteId of every ticket that has one
\* is the id of a usuarios row that is active and whose rol is AGENTE or
\* JEFE_DEPARTAMENTO.
C13_AgenteAsignadoValido ==
  \A id \in DOMAIN tickets :
    tickets[id].agenteId # NULL =>
      /\ tickets[id].agenteId \in DOMAIN usuarios
      /\ usuarios[tickets[id].agenteId].estaActivo
      /\ usuarios[tickets[id].agenteId].rol \in {"AGENTE", "JEFE_DEPARTAMENTO"}


\* C14: in every reachable state and for every body, PUT /api/tickets/:id
\* leaves the creadorId, departamentoId, estado and agenteId of every ticket
\* as they were.
C14_ActualizarGuardaElMarco ==
  \A u \in Autenticados, id \in IdsPedidos, b \in CuerposActualizar :
    LET r == RutaActualizar(u, id, b, "ninguna")
    IN  \A t \in DOMAIN tickets :
          /\ r.tickets[t].creadorId = tickets[t].creadorId
          /\ r.tickets[t].departamentoId = tickets[t].departamentoId
          /\ r.tickets[t].estado = tickets[t].estado
          /\ r.tickets[t].agenteId = tickets[t].agenteId


\* C15: in every reachable state, every ticket that exists has a history
\* whose first row is null -> ABIERTO and whose later rows all have an
\* estadoAnterior; and a POST /api/tickets answered 201 leaves the new
\* ticket ABIERTO with exactly that one row.
C15_HistorialDesdeLaCreacion ==
  /\ \A id \in DOMAIN tickets :
       LET h == historial[id]
       IN  /\ Len(h) >= 1
           /\ h[1].estadoAnterior = NULL
           /\ h[1].estadoNuevo = "ABIERTO"
           /\ \A i \in 2..Len(h) : h[i].estadoAnterior # NULL
  /\ TicketIds \ DOMAIN tickets # {} =>
       \A u \in Autenticados, d \in Departamentos, c \in Categorias :
         LET r == RutaCrear(u, d, c, "ninguna")
         IN  r.codigo = "201" =>
               /\ r.tickets[NuevoId].estado = "ABIERTO"
               /\ r.historial[NuevoId]
                    = <<HistorialEstado(NULL, "ABIERTO", <<"Ticket creado">>)>>


\* C16: in every reachable state the category of every ticket is a category
\* of the ticket's department, and a POST /api/tickets whose category is of
\* another department is answered an error and creates nothing.
C16_CategoriaDelDepartamento ==
  /\ \A id \in DOMAIN tickets :
       categorias[tickets[id].categoriaId].departamentoId
         = tickets[id].departamentoId
  /\ TicketIds \ DOMAIN tickets # {} =>
       \A u \in Autenticados, d \in Departamentos, c \in Categorias :
         categorias[c].departamentoId # d =>
           LET r == RutaCrear(u, d, c, "ninguna")
           IN  /\ r.codigo \notin {"200", "201"}
               /\ r.tickets = tickets
               /\ r.historial = historial


\* C17: no POST /api/tickets is answered 500 because its number was taken
\* by a concurrent request: the request whose insert hits the unique index
\* on numeroTicket takes a new number, and both requests end with a ticket.
C17_NumeroRepetidoSeReintenta ==
  \A p \in DOMAIN enVuelo :
    ~(enVuelo[p].codigo = "500" /\ enVuelo[p].error = "P2002")

\* C18: the numbers of the tickets created so far, in order of creation,
\* are all of the form YYYY-MM-NNNNNN and, within the month, each is
\* greater than every one before it, deleted tickets' numbers included.
C18_NumerosCrecientes ==
  \A i \in 1..Len(emitidos) :
    /\ emitidos[i][1] = PREFIJO
    /\ Len(emitidos[i][2]) = 6
    /\ \A j \in 1..(i - 1) :
         parseInt(emitidos[j][2]) < parseInt(emitidos[i][2])


\* C19: a CLIENTE is never answered an internal comment, neither by
\* GET /api/comentarios/:id nor among the comentarios of GET /api/tickets/:id.
C19_ClienteSinComentariosInternos ==
  \A u \in Autenticados :
    usuarios[u].rol = "CLIENTE" =>
      \A id \in IdsPedidos :
        /\ \A n \in LugaresPedidos :
             \A i \in DOMAIN obtenerComentarioPorId(u, id, n).respuesta :
               ~obtenerComentarioPorId(u, id, n).respuesta[i].esInterno
        /\ \A i \in DOMAIN comentariosDelTicket(u, id, "ninguna") :
             ~comentariosDelTicket(u, id, "ninguna")[i].esInterno


\* C20: while an account is deactivated, every login to it, every token
\* refresh for it and every request carrying a token of it is rejected and
\* opens or renews no session, whenever the token or its session was
\* issued; and the step that deactivates an account leaves the tickets, the
\* history, the work logs and the comments as they were.
C20_DesactivadoNoEntraNiActua ==
  /\ [](\A u \in DOMAIN usuarios :
          ~usuarios[u].estaActivo =>
            /\ u \notin Autenticados
            /\ \A p \in PasswordsPedidas,
                  f \in {"ninguna", "sesionActiva.create", "usuario.update"} :
                 /\ login(u, p, f).codigo \in {"401", "403"}
                 /\ login(u, p, f).sesiones = sesiones
            /\ \A t \in TokensPedidos \cup {s.token : s \in sesiones} :
                 t.userId = u =>
                   /\ authenticate(t) \in {"401", "403"}
                   /\ \A f \in {"ninguna", "sesionActiva.updateMany"} :
                        /\ refresh(t, f).codigo = "401"
                        /\ refresh(t, f).sesiones = sesiones)
  /\ [][\A u \in DOMAIN usuarios :
          usuarios[u].estaActivo /\ ~usuarios'[u].estaActivo =>
            /\ tickets' = tickets
            /\ historial' = historial
            /\ registros' = registros
            /\ comentarios' = comentarios]_vars

\* an account with a ticket it created and a session it opened is now
\* deactivated
C20_Testigo ==
  \E u \in DOMAIN usuarios :
    /\ ~usuarios[u].estaActivo
    /\ \E s \in sesiones : s.usuarioId = u
    /\ \E id \in DOMAIN tickets : tickets[id].creadorId = u


\* C21: a valid logWork on an existing ticket is accepted exactly when its
\* actor is the ticket's assigned AGENTE, the JEFE_DEPARTAMENTO of the
\* ticket's department or an ADMIN; for every other actor it is answered 403
\* and leaves the work logs and the ticket as they were.
C21_TrabajoSoloDeQuienPuede ==
  \A u \in Autenticados, id \in DOMAIN tickets, h \in 1..MaxHoras :
    LET puede ==
          \/ usuarios[u].rol = "ADMIN"
          \/ /\ usuarios[u].rol = "JEFE_DEPARTAMENTO"
             /\ tickets[id].departamentoId = usuarios[u].departamentoId
          \/ usuarios[u].rol = "AGENTE" /\ tickets[id].agenteId = u
        res == RutaTrabajo(u, id, h, "ninguna")
    IN  IF puede
          THEN res.codigo = "201"
          ELSE /\ res.codigo = "403"
               /\ res.registros = registros
               /\ res.tickets = tickets


\* C22: every assign request of a CLIENTE, single or bulk, is rejected and
\* changes no ticket and no history; when it names a ticket (the single
\* request does, the bulk request with a list that is not empty does), on
\* tickets the client created as on any other, it is answered 403.
C22_ClienteNoAsigna ==
  \A u \in Autenticados :
    usuarios[u].rol = "CLIENTE" =>
      \A a \in AgentesPedidos,
         f \in {"ninguna", "ticket.update", "historialEstado.create",
                "usuario.findFirst", "ticket.updateMany"} :
        /\ \A id \in IdsPedidos :
             LET r == RutaAsignar(u, id, a, f)
             IN  /\ r.codigo = "403"
                 /\ r.tickets = tickets
                 /\ r.historial = historial
        /\ \A ids \in ListasPedidas :
             LET r == RutaBulkAssign(u, ids, a, f)
             IN  /\ r.codigo = IF ids = {} THEN "400" ELSE "403"
                 /\ r.tickets = tickets
                 /\ r.historial = historial

\* a client has a ticket of their own, unassigned, and has sent two
\* requests
C22_Testigo ==
  \E u \in Autenticados, id \in DOMAIN tickets :
    /\ usuarios[u].rol = "CLIENTE"
    /\ tickets[id].creadorId = u
    /\ tickets[id].agenteId = NULL
    /\ tickets[id].estado = "ABIERTO"
    /\ pasos >= 2


\* C23: a request that names a ticket id of no ticket (get, transition,
\* assign, logWork, reopen), valid otherwise and sent by a user whose role
\* the route admits, is answered 404, and whatever it is answered it changes
\* no table.
C23_TicketInexistenteNoEncontrado ==
  \A u \in Autenticados, id \in IdsPedidos \ DOMAIN tickets :
    LET rol == usuarios[u].rol
        respuestas ==
          {RutaObtener(u, id, "ninguna")}
            \cup {RutaEstado(u, id, e, c, "ninguna") :
                    e \in EstadoTicket, c \in ComentariosPedidos}
            \cup {RutaAsignar(u, id, a, "ninguna") :
                    a \in {x \in AgentesPedidos : agenteValido(x)}}
            \cup {RutaTrabajo(u, id, h, "ninguna") : h \in 1..MaxHoras}
            \cup {RutaReabrir(u, id, "ninguna")}
    IN  \A res \in respuestas :
          /\ res.codigo \in {"403", "404"}
          /\ rol \in {"JEFE_DEPARTAMENTO"} => res.codigo = "404"
          /\ res.tickets = tickets
          /\ res.historial = historial
          /\ res.registros = registros


\* C28: CANCELADO is terminal: no step changes the estado of a ticket that
\* is CANCELADO.
C28_CanceladoEsTerminal ==
  [][\A id \in DOMAIN tickets :
       tickets[id].estado = "CANCELADO" =>
         tickets'[id].estado = "CANCELADO"]_vars


\* C29: a transition to the estado the ticket already has, accepted, leaves
\* the ticket's estado, fechaResolucion, fechaCierre and agenteId as they
\* were and appends exactly one historial_estados row, whose estadoAnterior
\* and estadoNuevo are that estado and whose comentario is the note given or
\* the default message.
C29_MismoEstadoSoloRegistra ==
  \A u \in Autenticados, id \in DOMAIN tickets, c \in ComentariosPedidos :
    LET e == tickets[id].estado
        res == RutaEstado(u, id, e, c, "ninguna")
    IN  res.codigo = "200" =>
          /\ res.tickets[id].estado = e
          /\ res.tickets[id].fechaResolucion = tickets[id].fechaResolucion
          /\ res.tickets[id].fechaCierre = tickets[id].fechaCierre
          /\ res.tickets[id].agenteId = tickets[id].agenteId
          /\ res.historial[id]
               = Append(historial[id],
                        HistorialEstado(e, e, comentarioEstado(c, e)))


\* C30: for an active account with at least one session, a refresh with a
\* token the secret signed for it is answered 200, however many sessions
\* the account has, and leaves a session that holds exactly the access
\* token it answers, so that authenticate lets that token through.
C30_RefrescoConVariasSesiones ==
  \A t \in TokensPedidos :
    ( /\ t.firma = "JWT_SECRET"
      /\ t.userId \in DOMAIN usuarios
      /\ usuarios[t.userId].estaActivo
      /\ \E s \in sesiones : s.usuarioId = t.userId )
    => /\ refresh(t, "ninguna").codigo = "200"
       /\ Sesion(t.userId, refresh(t, "ninguna").accessToken)
            \in refresh(t, "ninguna").sesiones


\* C24: a request of createTicket, assign, transition or addComment whose
\* own writes all succeeded is answered 200 or 201 whatever its fan-out
\* came to, and no step of a fan-out changes the tickets, the history or
\* the comments.
C24_AvisosNoHacenFallar ==
  /\ [](\A p \in DOMAIN enVuelo :
          ( /\ enVuelo[p].ruta \in {"crear", "asignar", "estado",
                                     "comentarios"}
            /\ enVuelo[p].pc = "respondida"
            /\ enVuelo[p].exito )
          => enVuelo[p].codigo \in {"200", "201"})
  /\ [][\A p \in DOMAIN enVuelo :
          ( /\ enVuelo[p].pc \in {"llamar", "esperando"}
            /\ enVuelo'[p] # enVuelo[p] )
          => /\ tickets' = tickets
             /\ historial' = historial
             /\ comentarios' = comentarios]_vars

\* a request whose own writes succeeded and whose fan-out had a call
\* rejected has been answered
C24_Testigo ==
  \E p \in DOMAIN enVuelo :
    /\ enVuelo[p].pc = "respondida"
    /\ enVuelo[p].exito
    /\ enVuelo[p].fallo
    /\ enVuelo[p].ruta = "estado"
    /\ enVuelo[p].valor = "CERRADO"

\* C25: every createTicket, assign and transition request that has arrived
\* is eventually answered, though a collaborator of its fan-out may never
\* answer.
C25_TodaPeticionSeResponde ==
  \A p \in Peticiones :
    (p \in DOMAIN enVuelo /\ enVuelo[p].ruta \in {"crear", "asignar", "estado"})
      ~> (p \in DOMAIN enVuelo /\ enVuelo[p].pc = "respondida")

\* C26: a request that assigned tickets, by PATCH /:id/asignar or by
\* POST /bulk/assign, was answered 200 and had no call of a fan-out
\* rejected has created, for every ticket it assigned, a notification for
\* the new agent and one for the ticket's creator.
C26_AsignacionAvisaAgenteYCreador ==
  \A p \in DOMAIN enVuelo :
    ( /\ enVuelo[p].ruta \in {"asignar", "bulk/assign"}
      /\ enVuelo[p].pc = "respondida"
      /\ enVuelo[p].codigo = "200"
      /\ ~enVuelo[p].fallo )
    => \A id \in enVuelo[p].ids :
         /\ \E n \in enVuelo[p].avisos :
              n.ticketId = id /\ n.usuarioId = enVuelo[p].valor
         /\ \E n \in enVuelo[p].avisos :
              n.ticketId = id /\ n.usuarioId = tickets[id].creadorId

\* C27: a request that changed the estado of tickets, by PATCH /:id/estado,
\* POST /:id/reabrir or POST /bulk/status, was answered 200 and had no call
\* of a fan-out rejected has created, for every ticket it changed, a
\* notification for the ticket's creator; and a request of these routes has
\* called the PDF report or the email only if the estado it gave is CERRADO.
C27_CambioDeEstadoAvisaAlCreador ==
  \A p \in DOMAIN enVuelo :
    enVuelo[p].ruta \in {"estado", "reabrir", "bulk/status"} =>
      /\ ( /\ enVuelo[p].pc = "respondida"
           /\ enVuelo[p].codigo = "200"
           /\ ~enVuelo[p].fallo )
         => \A id \in enVuelo[p].ids :
              \E n \in enVuelo[p].avisos :
                n.ticketId = id /\ n.usuarioId = tickets[id].creadorId
      /\ enVuelo[p].llamados \cap {"pdfService", "emailService"} # {}
           => enVuelo[p].valor = "CERRADO"

====
